---------------------------- MODULE Spec2Model ----------------------------
(***************************************************************************)
(* roll-rs: dice notation parser (regex driven), roll evaluation, expected *)
(* value, and the macro resolving command line of src/main.rs.             *)
(*                                                                         *)
(* Strings are sequences of one-character strings.  Option<T> is a         *)
(* sequence of length 0 (None) or 1 (Some(x)).  Result<T,E> is a record    *)
(* [ok, val, echo].  A call that can panic gives a record [panic, val]; a  *)
(* panic of the program ends in a pc "..._panic".                          *)
(***************************************************************************)
EXTENDS Integers, Sequences, FiniteSets, TLC

VARIABLES pc, overflow_checks, input, parsed, shown, reparsed, given, outcome,
          drawn, result, expected, args, macros, rolls, idx, total, out

vars == <<pc, overflow_checks, input, parsed, shown, reparsed, given, outcome,
          drawn, result, expected, args, macros, rolls, idx, total, out>>

(***************************************************************************)
(* Bounds of the model.                                                    *)
(***************************************************************************)
MaxTokLen == 4
MaxNum == 2
MaxDie == 3
ExpMaxDie == 6
MaxArgs == 2

None == <<>>
Some(x) == <<x>>
IsSome(o) == Len(o) = 1
Unwrap(o) == o[1]
unwrap_or(o, dflt) == IF IsSome(o) THEN o[1] ELSE dflt

Ok(v) == [ok |-> TRUE, val |-> v, echo |-> None]
Err(e) == [ok |-> FALSE, val |-> e, echo |-> None]

Returned(n) == [panic |-> FALSE, val |-> n]
Panicked == [panic |-> TRUE, val |-> 0]

(***************************************************************************)
(* Machine integers.  An i32 is the integer it denotes.  A u32 is held as  *)
(* the i32 with the same 32 bits: 0 .. 2^31 - 1 as themselves, and 2^31 .. *)
(* 2^32 - 1 as I32Min .. -1 (so u32::MAX is -1).  The casts `as i32` and   *)
(* `as u32` then change nothing, and + is the same on both.  A usize is    *)
(* the natural number it denotes.                                          *)
(*                                                                         *)
(* overflow_checks is the setting of the build: with it (a debug build)    *)
(* an arithmetic overflow panics, without it (a release build) the result  *)
(* wraps.                                                                  *)
(***************************************************************************)
I32Max == 2147483647
I32Min == (0 - I32Max) - 1
U32Max == 0 - 1

\* a + b on 32 bits, wrapping around.
wrapping_add(a, b) ==
    IF b > 0 /\ a > I32Max - b
    THEN ((a - I32Max) - 1) + ((b - I32Max) - 1)
    ELSE IF b < 0 /\ a < I32Min - b
    THEN ((a + I32Max) + 1) + ((b + I32Max) + 1)
    ELSE a + b

\* a < b and a <= b on u32.
u32_lt(a, b) == IF (a >= 0) = (b >= 0) THEN a < b ELSE a >= 0
u32_le(a, b) == a = b \/ u32_lt(a, b)

\* The number a u32 denotes (from 2^31 on, a number above the integers the
\* model checker computes with).
u32_value(a) == IF a >= 0 THEN a ELSE ((a + I32Max) + I32Max) + 2

\* The u32 values below high: what gen_range(0, high) can return.
u32_below(high) ==
    IF high >= 0 THEN 0..(high - 1) ELSE (0..I32Max) \cup (I32Min..(high - 1))

\* a + b on u32, a + b on i32 and -a on i32, as the build compiles them.
add_u32(a, b) ==
    IF overflow_checks /\ u32_lt(wrapping_add(a, b), a) THEN Panicked
    ELSE Returned(wrapping_add(a, b))

add_i32(a, b) ==
    IF overflow_checks /\ ((b > 0 /\ a > I32Max - b) \/ (b < 0 /\ a < I32Min - b))
    THEN Panicked
    ELSE Returned(wrapping_add(a, b))

neg_i32(a) ==
    IF a # I32Min THEN Returned(0 - a)
    ELSE IF overflow_checks THEN Panicked ELSE Returned(I32Min)

(***************************************************************************)
(* Decimal text <-> integers (str::parse and the {} formatter).            *)
(***************************************************************************)
DigitChars == <<"0", "1", "2", "3", "4", "5", "6", "7", "8", "9">>
IsDigit(c) == \E i \in 1..10 : DigitChars[i] = c
DigitVal(c) == (CHOOSE i \in 1..10 : DigitChars[i] = c) - 1

\* The natural number written s.
RECURSIVE DecimalValue(_)
DecimalValue(s) ==
    IF s = <<>> THEN 0
    ELSE 10 * DecimalValue(SubSeq(s, 1, Len(s) - 1)) + DigitVal(s[Len(s)])

\* The u32 written s (at most u32::MAX).
Twice(a) == wrapping_add(a, a)
TenTimes(a) == wrapping_add(Twice(Twice(Twice(a))), Twice(a))

RECURSIVE U32Written(_)
U32Written(s) ==
    IF s = <<>> THEN 0
    ELSE wrapping_add(TenTimes(U32Written(SubSeq(s, 1, Len(s) - 1))),
                      DigitVal(s[Len(s)]))

\* The negative of the number written s (at least i32::MIN).
RECURSIVE NegativeWritten(_)
NegativeWritten(s) ==
    IF s = <<>> THEN 0
    ELSE 10 * NegativeWritten(SubSeq(s, 1, Len(s) - 1)) - DigitVal(s[Len(s)])

(***************************************************************************)
(* Integer widths of the Rust types, as decimal text: u32::MAX, i32::MAX,  *)
(* |i32::MIN| and usize::MAX (64 bit).  Overflow is decided on the digits. *)
(***************************************************************************)
U32MaxDigits == <<"4", "2", "9", "4", "9", "6", "7", "2", "9", "5">>
I32MaxDigits == <<"2", "1", "4", "7", "4", "8", "3", "6", "4", "7">>
I32MinDigits == <<"2", "1", "4", "7", "4", "8", "3", "6", "4", "8">>
UsizeMaxDigits == <<"1", "8", "4", "4", "6", "7", "4", "4", "0", "7",
                    "3", "7", "0", "9", "5", "5", "1", "6", "1", "5">>

RECURSIVE StripZeros(_)
StripZeros(s) ==
    IF Len(s) > 1 /\ s[1] = "0" THEN StripZeros(Tail(s)) ELSE s

\* The number written s is greater than the number written max.
Exceeds(s, max) ==
    LET t == StripZeros(s) IN
    \/ Len(t) > Len(max)
    \/ /\ Len(t) = Len(max)
       /\ \E i \in 1..Len(t) :
             /\ DigitVal(t[i]) > DigitVal(max[i])
             /\ \A j \in 1..(i - 1) : t[j] = max[j]

AllDigits(s) == \A i \in 1..Len(s) : IsDigit(s[i])

\* str::parse::<u32>() of a string of digits: Err on empty or overflow.
parse_u32(s) ==
    IF s = <<>> \/ ~AllDigits(s) THEN Err("invalid")
    ELSE IF Exceeds(s, U32MaxDigits) THEN Err("overflow")
    ELSE Ok(U32Written(s))

\* str::parse::<usize>() of a string of digits.
parse_usize(s) ==
    IF s = <<>> \/ ~AllDigits(s) THEN Err("invalid")
    ELSE IF Exceeds(s, UsizeMaxDigits) THEN Err("overflow")
    ELSE Ok(DecimalValue(s))

\* str::parse::<i32>() of a sign followed by digits.
parse_i32(s) ==
    IF Len(s) < 2 \/ s[1] \notin {"+", "-"} \/ ~AllDigits(Tail(s)) THEN Err("invalid")
    ELSE IF s[1] = "+"
         THEN (IF Exceeds(Tail(s), I32MaxDigits) THEN Err("overflow")
               ELSE Ok(DecimalValue(Tail(s))))
         ELSE (IF Exceeds(Tail(s), I32MinDigits) THEN Err("overflow")
               ELSE Ok(NegativeWritten(Tail(s))))

\* The {} formatter of a usize.
RECURSIVE ToDecimal(_)
ToDecimal(n) ==
    IF n < 10 THEN <<DigitChars[n + 1]>>
    ELSE ToDecimal(n \div 10) \o <<DigitChars[(n % 10) + 1]>>

\* The {} formatter of a u32: from 2^31 on, the digits of 2^31 + q.
fmt_u32(a) ==
    IF a >= 0 THEN ToDecimal(a)
    ELSE LET q  == (a + I32Max) + 1
             lo == (q % 10) + 8
         IN  ToDecimal(214748364 + (q \div 10) + (lo \div 10))
             \o <<DigitChars[(lo % 10) + 1]>>

\* The digits of -m, for m < 0.
RECURSIVE Magnitude(_)
Magnitude(m) ==
    LET r == (10 - (m % 10)) % 10 IN
    IF m > 0 - 10 THEN <<DigitChars[(0 - m) + 1]>>
    ELSE Magnitude((m + r) \div 10) \o <<DigitChars[r + 1]>>

\* The {} and {:+} formatters of an i32.
fmt_i32(m) == IF m >= 0 THEN ToDecimal(m) ELSE <<"-">> \o Magnitude(m)
fmt_i32_plus(m) == IF m >= 0 THEN <<"+">> \o ToDecimal(m) ELSE fmt_i32(m)

(***************************************************************************)
(* REGEX_STR, matched by Regex::captures: the leftmost match anywhere in   *)
(* the input, greedy quantifiers.  A capture is None or Some(text).        *)
(***************************************************************************)
RECURSIVE DigitRun(_, _)
DigitRun(s, i) ==
    IF i > Len(s) \/ ~IsDigit(s[i]) THEN 0 ELSE 1 + DigitRun(s, i + 1)

\* An optional group  <one char of lead><digits>+  at position p.
HasGroup(s, p, lead) == p <= Len(s) /\ s[p] \in lead /\ DigitRun(s, p + 1) > 0
GroupEnd(s, p, lead) == IF HasGroup(s, p, lead) THEN p + 1 + DigitRun(s, p + 1) ELSE p

NoMatch == [matched |-> FALSE]

\* The captures of a match that starts at i, with "d" at dpos, and whose die,
\* reroll, keep and modifier groups end before p1, p2, p3 and p4.
Captured(s, i, dpos, p1, p2, p3, p4) ==
    [matched     |-> TRUE,
     from        |-> i,
     to          |-> p4,
     num         |-> Some(SubSeq(s, i, dpos - 1)),
     die         |-> Some(SubSeq(s, dpos + 1, p1 - 1)),
     reroll      |-> IF p2 > p1 THEN Some(SubSeq(s, p1 + 1, p2 - 1)) ELSE None,
     high_or_low |-> IF p3 > p2 THEN Some(<<s[p2]>>) ELSE None,
     keep        |-> IF p3 > p2 THEN Some(SubSeq(s, p2 + 1, p3 - 1)) ELSE None,
     modifier    |-> IF p4 > p3 THEN Some(SubSeq(s, p3, p4 - 1)) ELSE None]

\* (?P<modifier>[\+\-][0-9]+)?
MatchModifier(s, i, dpos, p1, p2, p3) ==
    Captured(s, i, dpos, p1, p2, p3, GroupEnd(s, p3, {"+", "-"}))

\* ((?P<high_or_low>[hl])(?P<keep>[0-9]+))?
MatchKeep(s, i, dpos, p1, p2) ==
    MatchModifier(s, i, dpos, p1, p2, GroupEnd(s, p2, {"h", "l"}))

\* (r(?P<reroll>[0-9]+))?
MatchReroll(s, i, dpos, p1) ==
    MatchKeep(s, i, dpos, p1, GroupEnd(s, p1, {"r"}))

\* d(?P<die>[0-9]+)
MatchDie(s, i, dpos) ==
    IF dpos > Len(s) \/ s[dpos] # "d" \/ DigitRun(s, dpos + 1) = 0
    THEN NoMatch
    ELSE MatchReroll(s, i, dpos, dpos + 1 + DigitRun(s, dpos + 1))

\* (?P<num>[0-9]*) and the rest of the pattern, tried at position i.
MatchAt(s, i) == MatchDie(s, i, i + DigitRun(s, i))

\* The positions at which the pattern matches.
MatchStarts(s) == {i \in 1..Len(s) : MatchAt(s, i).matched}

LeftmostMatch(s, starts) ==
    IF starts = {} THEN NoMatch
    ELSE MatchAt(s, CHOOSE i \in starts : \A j \in starts : i <= j)

\* Regex::captures
captures(s) == LeftmostMatch(s, MatchStarts(s))

(***************************************************************************)
(* Roll and its FromStr / Display implementations.                         *)
(***************************************************************************)
High(n) == [high |-> TRUE, n |-> n]
Low(n) == [high |-> FALSE, n |-> n]

Roll_new(num, die, reroll, keep, modifier) ==
    [num |-> num, die |-> die, reroll |-> reroll, keep |-> keep, modifier |-> modifier]

Roll_default == Roll_new(1, 0, None, None, None)

\* The body of from_str on the captures cap of the input s.
from_captures(s, cap) ==
    IF ~cap.matched
    THEN [ok |-> FALSE, val |-> "Something went wrong.", echo |-> Some(s)]
    ELSE
    LET num_str  == Unwrap(cap.num)
        num_res  == parse_u32(num_str)
        die_res  == parse_u32(Unwrap(cap.die))
        rr_res   == parse_u32(Unwrap(cap.reroll))
        mod_res  == parse_i32(Unwrap(cap.modifier))
        keep_res == parse_usize(Unwrap(cap.keep))
        hol_str  == Unwrap(cap.high_or_low)
    IN
    IF IsSome(cap.num) /\ Len(num_str) > 0 /\ ~num_res.ok
        THEN Err("Failed to parse number of dice.")
    ELSE IF ~IsSome(cap.die) THEN Err("No die specified.")
    ELSE IF ~die_res.ok THEN Err("Failed to parse die size.")
    ELSE IF IsSome(cap.reroll) /\ ~rr_res.ok THEN Err("Failed to parse reroll.")
    ELSE IF IsSome(cap.modifier) /\ ~mod_res.ok THEN Err("Failed to parse modifier.")
    ELSE IF IsSome(cap.high_or_low) /\ hol_str \notin {<<"h">>, <<"l">>}
        THEN Err("Error parsing high or low.")
    ELSE IF IsSome(cap.high_or_low) /\ IsSome(cap.keep) /\ ~keep_res.ok
        THEN Err("Error parsing number or dice to keep.")
    ELSE Ok(Roll_new(
            IF IsSome(cap.num) /\ Len(num_str) > 0 THEN num_res.val ELSE Roll_default.num,
            die_res.val,
            IF IsSome(cap.reroll) THEN Some(rr_res.val) ELSE Roll_default.reroll,
            IF IsSome(cap.high_or_low) /\ IsSome(cap.keep)
                THEN Some(IF hol_str = <<"h">> THEN High(keep_res.val) ELSE Low(keep_res.val))
                ELSE Roll_default.keep,
            IF IsSome(cap.modifier) THEN Some(mod_res.val) ELSE Roll_default.modifier))

\* impl FromStr for Roll
from_str(s) == from_captures(s, captures(s))

\* impl Display for Roll
Roll_fmt(r) ==
    (IF u32_lt(1, r.num) THEN fmt_u32(r.num) ELSE <<>>)
    \o <<"d">> \o fmt_u32(r.die)
    \o (IF IsSome(r.reroll) THEN <<"r">> \o fmt_u32(Unwrap(r.reroll)) ELSE <<>>)
    \o (IF IsSome(r.keep)
        THEN (IF Unwrap(r.keep).high THEN <<"h">> ELSE <<"l">>) \o ToDecimal(Unwrap(r.keep).n)
        ELSE <<>>)
    \o (IF IsSome(r.modifier) /\ Unwrap(r.modifier) # 0
        THEN fmt_i32_plus(Unwrap(r.modifier)) ELSE <<>>)

(***************************************************************************)
(* DieRoll, Outcome and the evaluation of a Roll.                          *)
(***************************************************************************)
Kept(n) == <<"Kept", n>>
Rerolled(old, new) == <<"Rerolled", old, new>>

\* Faulty variant: a rerolled die counts with its original value.
DieRoll_value_original(d) == d[2]

DieRoll_value(d) == IF d[1] = "Kept" THEN d[2] ELSE d[3]

\* Vec::sort_by(|a, b| a.value().cmp(&b.value())): a stable sort.
RECURSIVE InsertSorted(_, _)
InsertSorted(sorted, d) ==
    IF sorted = <<>> THEN <<d>>
    ELSE IF u32_le(DieRoll_value(sorted[Len(sorted)]), DieRoll_value(d))
         THEN Append(sorted, d)
         ELSE Append(InsertSorted(SubSeq(sorted, 1, Len(sorted) - 1), d),
                     sorted[Len(sorted)])

RECURSIVE sort_by_value(_)
sort_by_value(v) ==
    IF v = <<>> THEN <<>>
    ELSE InsertSorted(sort_by_value(SubSeq(v, 1, Len(v) - 1)), v[Len(v)])

Outcome_new(v, keep, modifier) ==
    [rolls |-> sort_by_value(v), keep |-> keep, modifier |-> modifier]

\* One step of sum::<u32>(): the sum so far plus the next value.
sum_step(acc, x) == IF acc.panic THEN acc ELSE add_u32(acc.val, x)

\* range.into_iter().map(|roll| roll.value()).sum::<u32>(), from 0 and from
\* the first die on; the addition is compiled as the build says.
RECURSIVE SumValues(_)
SumValues(v) ==
    IF v = <<>> THEN Returned(0)
    ELSE sum_step(SumValues(SubSeq(v, 1, Len(v) - 1)), DieRoll_value(v[Len(v)]))

\* <sum> as i32 + self.modifier
plus_modifier(sum, modifier) ==
    IF sum.panic THEN Panicked ELSE add_i32(sum.val, modifier)

\* Faulty variant: keep-low clamps an oversized count to the dice there are.
Outcome_total_clamp_low(o) ==
    LET len == Len(o.rolls) IN
    IF IsSome(o.keep) /\ Unwrap(o.keep).high
    THEN (IF Unwrap(o.keep).n > len THEN Panicked
          ELSE plus_modifier(SumValues(SubSeq(o.rolls, len - Unwrap(o.keep).n + 1, len)),
                             o.modifier))
    ELSE IF IsSome(o.keep)
    THEN plus_modifier(SumValues(SubSeq(o.rolls, 1, IF Unwrap(o.keep).n > len THEN len
                                                     ELSE Unwrap(o.keep).n)),
                       o.modifier)
    ELSE plus_modifier(SumValues(o.rolls), o.modifier)

\* Outcome::total.  rolls.len() - n underflows, and rolls[..n] is out of
\* range, when n exceeds the number of dice: both end in a panic.
Outcome_total(o) ==
    LET len == Len(o.rolls) IN
    IF IsSome(o.keep) /\ Unwrap(o.keep).high
    THEN (IF Unwrap(o.keep).n > len THEN Panicked
          ELSE plus_modifier(SumValues(SubSeq(o.rolls, len - Unwrap(o.keep).n + 1, len)),
                             o.modifier))
    ELSE IF IsSome(o.keep)
    THEN (IF Unwrap(o.keep).n > len THEN Panicked
          ELSE plus_modifier(SumValues(SubSeq(o.rolls, 1, Unwrap(o.keep).n)), o.modifier))
    ELSE plus_modifier(SumValues(o.rolls), o.modifier)

\* impl Display for DieRoll
DieRoll_fmt(d) ==
    IF d[1] = "Kept" THEN fmt_u32(d[2])
    ELSE fmt_u32(d[2]) \o <<"=", ">">> \o fmt_u32(d[3])

\* rolls.join(", ")
RECURSIVE join(_)
join(v) ==
    IF v = <<>> THEN <<>>
    ELSE IF Len(v) = 1 THEN DieRoll_fmt(v[1])
    ELSE DieRoll_fmt(v[1]) \o <<",", " ">> \o join(Tail(v))

\* The end of Outcome::fmt: what follows the text written so far.
fmt_modifier(written, modifier, negated) ==
    IF modifier > 0
    THEN Returned(written \o <<" ", "+", " ">> \o fmt_i32(modifier))
    ELSE IF modifier = 0 THEN Returned(written)
    ELSE IF negated.panic THEN [panic |-> TRUE, val |-> written]
    ELSE Returned(written \o <<" ", "-", " ">> \o fmt_i32(negated.val))

\* impl Display for Outcome: the text written, in full or up to a panic.
Outcome_fmt_total(o, t) ==
    IF t.panic THEN [panic |-> TRUE, val |-> <<>>]
    ELSE fmt_modifier(fmt_i32(t.val) \o <<" ", "(">> \o join(o.rolls) \o <<")">>,
                      o.modifier, neg_i32(o.modifier))

Outcome_fmt(o) == Outcome_fmt_total(o, Outcome_total(o))

\* Faulty variant: the drawn value is used as it is, without the + 1.
base_roll_zero_based(g) == g

\* Roll::base_roll: rng.gen_range(0, self.die) + 1, on the drawn value g
\* (g is below die, so the addition does not overflow).
base_roll(g) == wrapping_add(g, 1)

\* The loop of Roll::roll after i of the num dice; rng[pos] is the next value
\* the random source returns.  Gives the dice rolled and the values consumed.
RECURSIVE roll_loop(_, _, _, _, _)
roll_loop(r, rng, i, pos, acc) ==
    IF i = r.num THEN [rolls |-> acc, used |-> pos - 1]
    ELSE LET original_roll == base_roll(rng[pos]) IN
         IF IsSome(r.reroll) /\ u32_le(original_roll, Unwrap(r.reroll))
         THEN roll_loop(r, rng, wrapping_add(i, 1), pos + 2,
                        Append(acc, Rerolled(original_roll, base_roll(rng[pos + 1]))))
         ELSE roll_loop(r, rng, wrapping_add(i, 1), pos + 1,
                        Append(acc, Kept(original_roll)))

Roll_roll(r, rng) ==
    Outcome_new(roll_loop(r, rng, 0, 1, <<>>).rolls, r.keep, unwrap_or(r.modifier, 0))

\* The most values Roll::roll can ask of the random source.
MaxDraws(r) == IF IsSome(r.reroll) THEN 2 * u32_value(r.num) ELSE u32_value(r.num)

(***************************************************************************)
(* Expected value.  An f64 is held as the exact number n / d + plus that   *)
(* the f64 operations of the code approximate (0 / 0 is the NaN of a die   *)
(* of size 0), with rounds, the number of those operations whose result    *)
(* may have been rounded to the nearest f64.  With avg = die / 2 + 0.5,    *)
(* expected_roll is                                                        *)
(*   sum(n in 1..=die: if n <= reroll {avg} else {n}) / die                *)
(* = sum(n in 1..=die: if n <= reroll {die + 1} else {2 n}) / (2 die).     *)
(***************************************************************************)
RECURSIVE FaceSum(_, _, _)
FaceSum(n, die, reroll) ==
    IF n > die THEN 0
    ELSE (IF n <= reroll THEN die + 1 ELSE 2 * n) + FaceSum(n + 1, die, reroll)

\* x < 2^53: an f64 holds every integer below 2^53.
Fits53(x) == x \div 67108864 < 134217728

\* total / (die as f64), where twice is 2 * total: the terms are halves, and
\* their sum is exact as long as twice its value is below 2^53.
mean_of(twice, die) ==
    [panic |-> FALSE, n |-> twice, d |-> 2 * die, plus |-> 0,
     rounds |-> (IF Fits53(twice) THEN 0 ELSE die) + 1]

\* expected_roll on reroll.unwrap_or(die + 1), where next is die + 1.
expected_faces(die, reroll, next) ==
    IF next.panic THEN [panic |-> TRUE, n |-> 0, d |-> 0, plus |-> 0, rounds |-> 0]
    ELSE mean_of(FaceSum(1, u32_value(die), u32_value(unwrap_or(reroll, next.val))),
                 u32_value(die))

expected_roll(die, reroll) == expected_faces(die, reroll, add_u32(die, 1))

\* e * num_dice + modifier as f64
times_plus(e, num_dice, modifier) ==
    IF e.panic THEN e
    ELSE [panic |-> FALSE,
          n |-> e.n * num_dice,
          d |-> e.d,
          plus |-> modifier,
          rounds |-> e.rounds + (IF Fits53(num_dice) THEN 0 ELSE 1) + 2]

expected_total(r) ==
    times_plus(expected_roll(r.die, r.reroll),
               IF IsSome(r.keep) THEN Unwrap(r.keep).n ELSE u32_value(r.num),
               unwrap_or(r.modifier, 0))

(***************************************************************************)
(* Values of the variables a specification does not use.                   *)
(***************************************************************************)
Idle == <<>>

IdleParse == input = Idle /\ parsed = Idle /\ shown = Idle /\ reparsed = Idle
IdleEval == given = Idle /\ outcome = Idle /\ drawn = Idle
            /\ result = Idle /\ expected = Idle
IdleMain == args = Idle /\ macros = Idle /\ rolls = Idle /\ idx = 0
            /\ total = 0 /\ out = Idle

parseVars == <<input, parsed, shown, reparsed>>
evalVars == <<given, outcome, drawn, result, expected>>
mainVars == <<args, macros, rolls, idx, total, out>>

(***************************************************************************)
(* SpecParse: a token goes through Roll::from_str, Display, and            *)
(* Roll::from_str again.                                                   *)
(***************************************************************************)
Alphabet == {"0", "1", "2", "d", "r", "h", "l", "+", "-", "x"}

Strings(maxLen) == UNION {[1..n -> Alphabet] : n \in 0..maxLen}

\* Tokens with numbers at the ends of u32 and i32.
T_dU32Max == <<"d">> \o U32MaxDigits
T_dU32Over == <<"d">> \o SubSeq(U32MaxDigits, 1, 9) \o <<"6">>
T_dI32Over == <<"d">> \o I32MinDigits
T_U32Maxd1 == U32MaxDigits \o <<"d", "1">>
T_d1rU32Max == <<"d", "1", "r">> \o U32MaxDigits
T_d1PlusMax == <<"d", "1", "+">> \o I32MaxDigits
T_d1PlusOver == <<"d", "1", "+">> \o I32MinDigits
T_d1MinusMax == <<"d", "1", "-">> \o I32MaxDigits
T_d1MinusMin == <<"d", "1", "-">> \o I32MinDigits
T_d1MinusOver == <<"d", "1", "-">> \o SubSeq(I32MinDigits, 1, 9) \o <<"9">>

WideTokens ==
    {T_dU32Max, T_dU32Over, T_dI32Over, T_U32Maxd1, T_d1rU32Max,
     T_d1PlusMax, T_d1PlusOver, T_d1MinusMax, T_d1MinusMin, T_d1MinusOver}

InitParse ==
    /\ pc = "start"
    /\ overflow_checks \in BOOLEAN
    /\ input \in Strings(MaxTokLen) \cup WideTokens
    /\ parsed = Idle /\ shown = Idle /\ reparsed = Idle
    /\ IdleEval /\ IdleMain

\* input.parse::<Roll>()
ParseToken ==
    /\ pc = "start"
    /\ parsed' = from_str(input)
    /\ pc' = "parsed"
    /\ UNCHANGED <<overflow_checks, input, shown, reparsed, evalVars, mainVars>>

\* roll.to_string()
DisplayRoll ==
    /\ pc = "parsed"
    /\ parsed.ok
    /\ shown' = Roll_fmt(parsed.val)
    /\ pc' = "shown"
    /\ UNCHANGED <<overflow_checks, input, parsed, reparsed, evalVars, mainVars>>

\* roll.to_string().parse::<Roll>()
Reparse ==
    /\ pc = "shown"
    /\ reparsed' = from_str(shown)
    /\ pc' = "reparsed"
    /\ UNCHANGED <<overflow_checks, input, parsed, shown, evalVars, mainVars>>

NextParse == ParseToken \/ DisplayRoll \/ Reparse

SpecParse == InitParse /\ [][NextParse]_vars

(***************************************************************************)
(* SpecRoll: a token written in the notation is parsed, rolled against a   *)
(* random source, and totalled.  given records how the token was written.  *)
(***************************************************************************)
Modifiers == {None, Some(0 - 2), Some(3)}

Keeps(maxKeep) ==
    {None} \cup {Some(High(n)) : n \in 0..maxKeep} \cup {Some(Low(n)) : n \in 0..maxKeep}

Written(maxNum, maxDie) ==
    [num      : {None} \cup {Some(n) : n \in 0..maxNum},
     die      : 0..maxDie,
     reroll   : {None} \cup {Some(n) : n \in 0..maxDie},
     keep     : Keeps(maxNum + 1),
     modifier : Modifiers]

Notation(w) ==
    (IF IsSome(w.num) THEN ToDecimal(Unwrap(w.num)) ELSE <<>>)
    \o <<"d">> \o fmt_u32(w.die)
    \o (IF IsSome(w.reroll) THEN <<"r">> \o fmt_u32(Unwrap(w.reroll)) ELSE <<>>)
    \o (IF IsSome(w.keep)
        THEN (IF Unwrap(w.keep).high THEN <<"h">> ELSE <<"l">>) \o ToDecimal(Unwrap(w.keep).n)
        ELSE <<>>)
    \o (IF IsSome(w.modifier) THEN fmt_i32_plus(Unwrap(w.modifier)) ELSE <<>>)

InitRoll ==
    /\ pc = "start"
    /\ overflow_checks \in BOOLEAN
    /\ given \in Written(MaxNum, MaxDie)
    /\ input = Notation(given)
    /\ parsed = Idle /\ shown = Idle /\ reparsed = Idle
    /\ outcome = Idle /\ drawn = Idle /\ result = Idle /\ expected = Idle
    /\ IdleMain

\* The streams of values the random source can return to Roll::roll.
Streams(r) == [1..MaxDraws(r) -> u32_below(r.die)]

\* roll.roll(&mut rng): gen_range(0, 0) panics, so a die of size 0 cannot be rolled.
RollDice ==
    /\ pc = "parsed"
    /\ parsed.ok
    /\ LET r == parsed.val IN
       IF r.num # 0 /\ r.die = 0
       THEN /\ pc' = "roll_panic"
            /\ UNCHANGED <<outcome, drawn>>
       ELSE \E rng \in Streams(r) :
            /\ outcome' = Roll_roll(r, rng)
            /\ drawn' = SubSeq(rng, 1, roll_loop(r, rng, 0, 1, <<>>).used)
            /\ pc' = "outcome"
    /\ UNCHANGED <<overflow_checks, parseVars, given, result, expected, mainVars>>

\* outcome.total()
TotalOutcome ==
    /\ pc = "outcome"
    /\ result' = Outcome_total(outcome)
    /\ pc' = IF result'.panic THEN "total_panic" ELSE "totalled"
    /\ UNCHANGED <<overflow_checks, parseVars, given, outcome, drawn, expected, mainVars>>

NextRoll == ParseToken \/ RollDice \/ TotalOutcome

SpecRoll == InitRoll /\ [][NextRoll]_vars

(***************************************************************************)
(* SpecOutcome: Outcome::new on any list of die results, then total().     *)
(* The die results are those of small dice, and dice that stopped on the   *)
(* largest i32 and on the largest u32.                                     *)
(***************************************************************************)
DieRolls(maxDie) ==
    {Kept(n) : n \in 1..maxDie}
    \cup {Rerolled(old, new) : old \in 1..maxDie, new \in 1..maxDie}

WideDieRolls == {Kept(I32Max), Kept(U32Max), Rerolled(1, I32Max)}

InitOutcome ==
    /\ pc = "start"
    /\ overflow_checks \in BOOLEAN
    /\ given \in [rolls    : UNION {[1..n -> DieRolls(MaxDie) \cup WideDieRolls] :
                                      n \in 0..MaxNum},
                  keep     : Keeps(MaxNum + 1),
                  modifier : {0 - 2, 0, 3}]
    /\ outcome = Idle /\ drawn = Idle /\ result = Idle /\ expected = Idle
    /\ IdleParse /\ IdleMain

\* Outcome::new(rolls, keep, modifier)
NewOutcome ==
    /\ pc = "start"
    /\ outcome' = Outcome_new(given.rolls, given.keep, given.modifier)
    /\ pc' = "outcome"
    /\ UNCHANGED <<overflow_checks, parseVars, given, drawn, result, expected, mainVars>>

NextOutcome == NewOutcome \/ TotalOutcome

SpecOutcome == InitOutcome /\ [][NextOutcome]_vars

(***************************************************************************)
(* SpecExpected: a token is parsed and its expected total computed.        *)
(***************************************************************************)
\* Dice of u32::MAX faces, written d4294967295 and d4294967295r1.
WideWritten ==
    [num : {None}, die : {U32Max}, reroll : {None, Some(1)}, keep : {None},
     modifier : {None}]

\* A die of u32::MAX faces is an input of the build with overflow checks;
\* without them expected_roll sums its 2^32 - 1 faces to a mean of about
\* 2^31, numbers above the integers the model checker computes with.
InitExpected ==
    /\ pc = "start"
    /\ overflow_checks \in BOOLEAN
    /\ given \in Written(MaxNum, ExpMaxDie)
                 \cup (IF overflow_checks THEN WideWritten ELSE {})
    /\ input = Notation(given)
    /\ parsed = Idle /\ shown = Idle /\ reparsed = Idle
    /\ outcome = Idle /\ drawn = Idle /\ result = Idle /\ expected = Idle
    /\ IdleMain

\* roll.expected_total()
ExpectedTotal ==
    /\ pc = "parsed"
    /\ parsed.ok
    /\ expected' = expected_total(parsed.val)
    /\ pc' = IF expected'.panic THEN "expected_panic" ELSE "expected"
    /\ UNCHANGED <<overflow_checks, parseVars, given, outcome, drawn, result, mainVars>>

NextExpected == ParseToken \/ ExpectedTotal

SpecExpected == InitExpected /\ [][NextExpected]_vars

(***************************************************************************)
(* Spec: the command line of src/main.rs.  Context::new, load_macros on    *)
(* the macro definitions, parse_rolls on the arguments, process_rolls.     *)
(***************************************************************************)
T_adv == <<"a", "d", "v">>
T_dis == <<"d", "i", "s">>
T_stats == <<"s", "t", "a", "t", "s">>
T_2d20h1 == <<"2", "d", "2", "0", "h", "1">>
T_2d20l1 == <<"2", "d", "2", "0", "l", "1">>
T_4d6h3 == <<"4", "d", "6", "h", "3">>
T_two == <<"t", "w", "o">>
T_d2 == <<"d", "2">>
T_d3 == <<"d", "3">>
T_2d2r1 == <<"2", "d", "2", "r", "1">>
T_d == <<"d">>
T_d0 == <<"d", "0">>
T_d2h2 == <<"d", "2", "h", "2">>
T_bad == <<"b", "a", "d">>

\* macros.txt, one line per macro: <name> <token>+ .  The built-in macros.
BuiltinMacroFile ==
    << <<T_adv, T_2d20h1>>,
       <<T_dis, T_2d20l1>>,
       <<T_stats, T_4d6h3, T_4d6h3, T_4d6h3, T_4d6h3, T_4d6h3, T_4d6h3>> >>

\* Definition sources: the built-in table; the table with two more macros, the
\* second named like a dice token and made of the first and a dice token; a
\* malformed one.
MacroFiles ==
    { BuiltinMacroFile,
      BuiltinMacroFile \o << <<T_two, T_d2, T_d2>>, <<T_d3, T_two, T_d3>> >>,
      Append(BuiltinMacroFile, <<T_bad, T_d>>) }

\* The tokens of the command line: dice of at most three faces (two of them
\* with a modifier at the end of i32), a macro of such dice, and tokens that
\* do not parse.
ArgTokens ==
    {T_two, T_d2, T_d3, T_2d2r1, T_d1MinusMax, T_d1MinusMin, T_d, T_dU32Over,
     T_d0, T_d2h2}

\* The tokens resolution is checked on: the built-in macros among them.
ResolveTokens == {T_adv, T_dis, T_stats, T_two, T_d2, T_d3, T_2d20h1, T_d, T_dU32Over}

\* HashMap::insert
Insert(m, name, v) ==
    [k \in (DOMAIN m) \cup {name} |-> IF k = name THEN v ELSE m[k]]

\* Faulty variant: a token that parses is parsed, and looked up as a macro otherwise.
RECURSIVE parse_rolls_parse_first(_, _)
parse_rolls_parse_first(m, tokens) ==
    IF tokens = <<>> THEN Ok(<<>>)
    ELSE LET arg  == Head(tokens)
             this == IF from_str(arg).ok THEN Ok(<<from_str(arg).val>>)
                     ELSE IF arg \in DOMAIN m THEN Ok(m[arg])
                     ELSE from_str(arg)
             rest == parse_rolls_parse_first(m, Tail(tokens))
         IN  IF ~this.ok THEN this
             ELSE IF ~rest.ok THEN rest
             ELSE Ok(this.val \o rest.val)

\* Faulty variant: a token that does not resolve is skipped.
RECURSIVE parse_rolls_skip_invalid(_, _)
parse_rolls_skip_invalid(m, tokens) ==
    IF tokens = <<>> THEN Ok(<<>>)
    ELSE LET arg  == Head(tokens)
             this == IF arg \in DOMAIN m THEN m[arg]
                     ELSE IF from_str(arg).ok THEN <<from_str(arg).val>>
                     ELSE <<>>
         IN  Ok(this \o parse_rolls_skip_invalid(m, Tail(tokens)).val)

\* One turn of the loop of parse_rolls: arg is a macro of m, or else parsed
\* holds arg.parse(); rest is the outcome of the turns that follow.
parse_rolls_turn(m, arg, parsed_arg, rest) ==
    IF arg \in DOMAIN m
    THEN (IF rest.ok THEN Ok(m[arg] \o rest.val) ELSE rest)
    ELSE IF ~parsed_arg.ok THEN parsed_arg
    ELSE (IF rest.ok THEN Ok(<<parsed_arg.val>> \o rest.val) ELSE rest)

\* Context::parse_rolls: the rolls, or the error of the first token that does
\* not resolve (with the line from_str printed for it).
RECURSIVE parse_rolls(_, _)
parse_rolls(m, tokens) ==
    IF tokens = <<>> THEN Ok(<<>>)
    ELSE parse_rolls_turn(m, Head(tokens), from_str(Head(tokens)),
                          parse_rolls(m, Tail(tokens)))

\* One line of the macro definitions: res is parse_rolls of its tokens, and
\* loaded the outcome of loading the lines that follow.
load_macros_line(m, res, loaded) ==
    IF ~res.ok THEN [panic |-> TRUE, macros |-> m, echo |-> res.echo] ELSE loaded

\* Context::load_macros: each line is resolved against the macros loaded so
\* far; unwrap() on an empty line and expect() on a parse error panic.
RECURSIVE load_macros(_, _)
load_macros(m, lines) ==
    IF lines = <<>> THEN [panic |-> FALSE, macros |-> m, echo |-> None]
    ELSE IF Head(lines) = <<>> THEN [panic |-> TRUE, macros |-> m, echo |-> None]
    ELSE load_macros_line(m, parse_rolls(m, Tail(Head(lines))),
            load_macros(Insert(m, Head(Head(lines)),
                               parse_rolls(m, Tail(Head(lines))).val),
                        Tail(lines)))

\* A printed line.  The roll line is "<roll>: <outcome> (Expected: <e>)"; a
\* cut line is what a roll line had written when Outcome::fmt panicked.
EchoLines(e) == IF IsSome(e) THEN <<[kind |-> "echo", text |-> Unwrap(e)]>> ELSE <<>>
ErrorLine(why) == [kind |-> "error", text |-> why]
RollLine(r, o, e) ==
    [kind |-> "roll", text |-> Roll_fmt(r) \o <<":", " ">> \o o, expected |-> e]
CutLine(r, o) == [kind |-> "cut", text |-> Roll_fmt(r) \o <<":", " ">> \o o]
TotalLine(t) == [kind |-> "total", text |-> fmt_i32(t)]

Init ==
    /\ pc = "start"
    /\ overflow_checks \in BOOLEAN
    /\ args \in UNION {[1..n -> ArgTokens] : n \in 0..MaxArgs}
    /\ macros = <<>>
    /\ rolls = Idle /\ idx = 0 /\ total = 0 /\ out = <<>>
    /\ IdleParse /\ IdleEval

\* context.load_macros()
LoadMacros ==
    /\ pc = "start"
    /\ \E file \in MacroFiles : \E res \in {load_macros(macros, file)} :
          /\ macros' = res.macros
          /\ out' = out \o EchoLines(res.echo)
          /\ pc' = IF res.panic THEN "load_panic" ELSE "loaded"
    /\ UNCHANGED <<overflow_checks, parseVars, evalVars, args, rolls, idx, total>>

\* match context.parse_rolls(env::args().skip(1)) { Ok(rolls) => ..., Err(why) => ... }
ParseArgs ==
    /\ pc = "loaded"
    /\ \E res \in {parse_rolls(macros, args)} :
       IF res.ok
       THEN /\ rolls' = res.val
            /\ idx' = 1
            /\ pc' = "process"
            /\ out' = out
       ELSE /\ out' = out \o EchoLines(res.echo) \o <<ErrorLine(res.val)>>
            /\ pc' = "done"
            /\ UNCHANGED <<rolls, idx>>
    /\ UNCHANGED <<overflow_checks, parseVars, evalVars, args, macros, total>>

\* The rest of a turn of the loop of process_rolls, once roll.roll() gave o:
\* t is o.total(), sum is total + t, e is roll.expected_total() and text is
\* the outcome as Display writes it.
ProcessOutcome(r, t, sum, e, text) ==
    IF t.panic
    THEN pc' = "total_panic" /\ UNCHANGED <<total, out, idx>>
    ELSE IF sum.panic
    THEN pc' = "add_panic" /\ UNCHANGED <<total, out, idx>>
    ELSE IF e.panic
    THEN pc' = "expected_panic" /\ total' = sum.val /\ UNCHANGED <<out, idx>>
    ELSE IF text.panic
    THEN /\ pc' = "print_panic"
         /\ total' = sum.val
         /\ out' = Append(out, CutLine(r, text.val))
         /\ UNCHANGED idx
    ELSE /\ pc' = pc
         /\ total' = sum.val
         /\ out' = Append(out, RollLine(r, text.val, e))
         /\ idx' = idx + 1

\* One turn of the loop of Context::process_rolls; thread_rng() can return
\* any stream of values.
ProcessRoll ==
    /\ pc = "process"
    /\ idx <= Len(rolls)
    /\ \E r \in {rolls[idx]} :
       IF r.num # 0 /\ r.die = 0
       THEN /\ pc' = "roll_panic"
            /\ UNCHANGED <<outcome, drawn, result, total, out, idx>>
       ELSE \E rng \in Streams(r) : \E o \in {Roll_roll(r, rng)} :
            \E t \in {Outcome_total(o)} :
            /\ outcome' = o
            /\ drawn' = SubSeq(rng, 1, roll_loop(r, rng, 0, 1, <<>>).used)
            /\ result' = t
            /\ ProcessOutcome(r, t, add_i32(total, t.val), expected_total(r),
                              Outcome_fmt_total(o, t))
    /\ UNCHANGED <<overflow_checks, parseVars, given, expected, args, macros, rolls>>

\* The end of Context::process_rolls, and of main.
FinishRolls ==
    /\ pc = "process"
    /\ idx > Len(rolls)
    /\ out' = IF Len(rolls) > 1 THEN Append(out, TotalLine(total)) ELSE out
    /\ pc' = "done"
    /\ UNCHANGED <<overflow_checks, parseVars, evalVars, args, macros, rolls, idx, total>>

Next == LoadMacros \/ ParseArgs \/ ProcessRoll \/ FinishRolls

Spec == Init /\ [][Next]_vars

(***************************************************************************)
(* SpecResolve: load_macros, then parse_rolls on token lists that name the *)
(* built-in macros.                                                        *)
(***************************************************************************)
InitResolve ==
    /\ pc = "start"
    /\ overflow_checks \in BOOLEAN
    /\ args \in UNION {[1..n -> ResolveTokens] : n \in 0..MaxArgs}
    /\ macros = <<>>
    /\ rolls = Idle /\ idx = 0 /\ total = 0 /\ out = <<>>
    /\ IdleParse /\ IdleEval

NextResolve == LoadMacros \/ ParseArgs

SpecResolve == InitResolve /\ [][NextResolve]_vars

(***************************************************************************)
(* The grammar of the notation, as a language:                             *)
(*   token := [num] "d" die [reroll] [keep] [modifier]                     *)
(***************************************************************************)
GroupLeads == << {"r"}, {"h", "l"}, {"+", "-"} >>

RECURSIVE OptionalGroups(_, _)
OptionalGroups(t, leads) ==
    \/ t = <<>>
    \/ /\ leads # <<>>
       /\ \/ OptionalGroups(t, Tail(leads))
          \/ \E k \in 2..Len(t) :
                /\ t[1] \in Head(leads)
                /\ AllDigits(SubSeq(t, 2, k))
                /\ OptionalGroups(SubSeq(t, k + 1, Len(t)), Tail(leads))

InGrammar(s) ==
    \E i \in 1..Len(s) : \E j \in (i + 1)..Len(s) :
        /\ s[i] = "d"
        /\ AllDigits(SubSeq(s, 1, i - 1))
        /\ AllDigits(SubSeq(s, i + 1, j))
        /\ OptionalGroups(SubSeq(s, j + 1, Len(s)), GroupLeads)

\* The grammar with the die size left out:  [num] "d" [reroll] [keep] [modifier]
OmitsDie(s) ==
    \E i \in 1..Len(s) :
        /\ s[i] = "d"
        /\ AllDigits(SubSeq(s, 1, i - 1))
        /\ OptionalGroups(SubSeq(s, i + 1, Len(s)), GroupLeads)

\* C1: from_str accepts a token only if the whole token matches the grammar;
\* every other token is rejected with the generic parse error.
C1_Anchored ==
    (pc = "parsed" /\ ~InGrammar(input)) =>
        (~parsed.ok /\ parsed.val = "Something went wrong.")

\* C2: a parsed Roll, formatted with Display and parsed again, is the same
\* Roll in num, die, reroll, keep and modifier.
C2_RoundTrip ==
    pc = "reparsed" => (reparsed.ok /\ reparsed.val = parsed.val)

\* C8: a token that leaves out the die size fails with "No die specified."
C8_MissingDie ==
    (pc = "parsed" /\ OmitsDie(input)) =>
        (~parsed.ok /\ parsed.val = "No die specified.")

(***************************************************************************)
(* Evaluation properties.                                                  *)
(***************************************************************************)
\* The value a die counts with: the last component of Kept(v) / Rerolled(o, f).
Effective(d) == d[Len(d)]

\* All values a die result records.
Recorded(d) == {d[k] : k \in 2..Len(d)}

Count(seq, P(_)) == Cardinality({i \in 1..Len(seq) : P(seq[i])})

RECURSIVE SumOver(_, _)
SumOver(f, S) ==
    IF S = {} THEN 0
    ELSE LET x == CHOOSE y \in S : TRUE IN f[x] + SumOver(f, S \ {x})

Ascending(seq) ==
    \A i \in 1..(Len(seq) - 1) : u32_le(Effective(seq[i]), Effective(seq[i + 1]))

\* C3: every value an Outcome of Roll::roll records (kept, original or final)
\* lies in 1..=die.
C3_ValuesInRange ==
    pc \in {"outcome", "totalled"} =>
        \A i \in 1..Len(outcome.rolls) :
            \A v \in Recorded(outcome.rolls[i]) :
                u32_le(1, v) /\ u32_le(v, parsed.val.die)

C3_Witness ==
    /\ pc = "outcome"
    /\ parsed.val.die = MaxDie
    /\ \E i \in 1..Len(outcome.rolls) : outcome.rolls[i] = Rerolled(1, MaxDie)
    /\ \E i \in 1..Len(outcome.rolls) : outcome.rolls[i] = Kept(MaxDie)

\* C5: with a reroll threshold r, a die is rerolled exactly once if its first
\* draw is <= r and not at all otherwise, whatever the replacement; it is
\* recorded as Rerolled(original, replacement) or Kept(value); the total counts
\* the replacement only.
C5_RerollOnce ==
    (pc \in {"outcome", "totalled"} /\ IsSome(parsed.val.reroll)) =>
        LET r       == Unwrap(parsed.val.reroll)
            dice    == outcome.rolls
            IsRe(d) == d[1] = "Rerolled"
        IN  /\ Len(dice) = parsed.val.num
            /\ \A i \in 1..Len(dice) :
                  /\ dice[i][1] \in {"Kept", "Rerolled"}
                  /\ IsRe(dice[i]) => (Len(dice[i]) = 3 /\ dice[i][2] <= r)
                  /\ ~IsRe(dice[i]) => (Len(dice[i]) = 2 /\ dice[i][2] > r)
            \* one draw per die and exactly one more per rerolled die
            /\ Len(drawn) = parsed.val.num + Count(dice, IsRe)
            \* the values recorded are the values drawn
            /\ \A v \in 1..parsed.val.die :
                  LET Drew(g) == g + 1 = v
                      Orig(d) == d[2] = v
                      Repl(d) == IsRe(d) /\ d[3] = v
                  IN  Count(drawn, Drew) = Count(dice, Orig) + Count(dice, Repl)
            /\ (pc = "totalled" /\ parsed.val.keep = None) =>
                  result.val = SumOver([i \in 1..Len(dice) |->
                                          IF IsRe(dice[i]) THEN dice[i][3] ELSE dice[i][2]],
                                       1..Len(dice))
                               + unwrap_or(parsed.val.modifier, 0)

C5_Witness ==
    /\ pc = "totalled"
    /\ parsed.val.keep = None
    /\ parsed.val.reroll = Some(2)
    /\ \E i \in 1..Len(outcome.rolls) : outcome.rolls[i] = Rerolled(2, 1)
    /\ \E i \in 1..Len(outcome.rolls) : outcome.rolls[i] = Kept(3)

\* The token was written with a keep count above its dice count.
KeepExceedsDice ==
    IsSome(given.keep) /\ Unwrap(given.keep).n > unwrap_or(given.num, 1)

\* C10: the parser accepts a keep count above the dice count, and total() of
\* such a roll follows one policy for High(n) and Low(n) alike: it fails, and
\* never returns a total of some subset of the dice.
C10_KeepExceeds ==
    KeepExceedsDice =>
        /\ pc # "start" =>
              /\ parsed.ok
              /\ parsed.val.keep = given.keep
              /\ parsed.val.num = unwrap_or(given.num, 1)
        /\ pc # "totalled"
        /\ pc = "total_panic" => result = Panicked

C10_Witness ==
    /\ KeepExceedsDice
    /\ ~Unwrap(given.keep).high
    /\ pc = "total_panic"
    /\ Len(outcome.rolls) = MaxNum

(***************************************************************************)
(* Sums of 32 bit values, without a width: a number is held in two parts,  *)
(* hi * 65536 + lo with lo in 0..65535.                                    *)
(***************************************************************************)
Parts(hi, lo) == [hi |-> hi + (lo \div 65536), lo |-> lo % 65536]

\* The number an i32 denotes, and the number a u32 denotes.
OfI32(x) == Parts(x \div 65536, x % 65536)
OfU32(x) == Parts((x \div 65536) % 65536, x % 65536)

Plus(a, b) == Parts(a.hi + b.hi, a.lo + b.lo)
AtMost(a, b) == a.hi < b.hi \/ (a.hi = b.hi /\ a.lo <= b.lo)

RECURSIVE PlusOver(_, _)
PlusOver(f, S) ==
    IF S = {} THEN Parts(0, 0)
    ELSE LET x == CHOOSE y \in S : TRUE IN Plus(f[x], PlusOver(f, S \ {x}))

\* The sums of the effective values of every choice of n dice of seq.
SubsetSums(seq, n) ==
    {PlusOver([i \in 1..Len(seq) |-> OfU32(Effective(seq[i]))], S) :
        S \in {T \in SUBSET (1..Len(seq)) : Cardinality(T) = n}}

Largest(S) == CHOOSE x \in S : \A y \in S : AtMost(y, x)
Smallest(S) == CHOOSE x \in S : \A y \in S : AtMost(x, y)

\* C4: with keep count n not above the number of dice, total() is the sum of
\* the n largest effective values for High(n), of the n smallest for Low(n), of
\* all of them without keep, plus the modifier; the stored rolls are the given
\* ones in ascending order of effective value.
C4_Total ==
    /\ pc \in {"outcome", "totalled", "total_panic"} =>
          /\ Ascending(outcome.rolls)
          /\ Len(outcome.rolls) = Len(given.rolls)
          /\ \A k \in 1..Len(given.rolls) :
                LET Is(x) == x = given.rolls[k]
                IN  Count(outcome.rolls, Is) = Count(given.rolls, Is)
    /\ pc = "total_panic" =>
          (IsSome(given.keep) /\ Unwrap(given.keep).n > Len(given.rolls))
    /\ pc = "totalled" =>
          OfI32(result.val) = Plus(OfI32(given.modifier),
              (IF given.keep = None
               THEN Largest(SubsetSums(given.rolls, Len(given.rolls)))
               ELSE IF Unwrap(given.keep).high
               THEN Largest(SubsetSums(given.rolls, Unwrap(given.keep).n))
               ELSE Smallest(SubsetSums(given.rolls, Unwrap(given.keep).n))))

\* 2 * die * E in closed form: the faces up to the threshold count (die+1)/2.
TwiceDieE(die, reroll) ==
    LET rr == IF reroll = None THEN 0
              ELSE IF Unwrap(reroll) > die THEN die ELSE Unwrap(reroll)
    IN  rr * (die + 1) + (die * (die + 1) - rr * (rr + 1))

\* C9: expected_total = k * E + m with E = (1/die) * sum over faces v of
\* ((die+1)/2 if a threshold r is set and v <= r, else v), k the keep count if
\* keep is set and num otherwise, m the modifier; with k * E as a fraction of
\* denominator 2 * die.
C9_Expected ==
    pc # "expected_panic" /\
    ((pc = "expected" /\ parsed.val.die >= 1) =>
        LET r == parsed.val
            k == IF IsSome(r.keep) THEN Unwrap(r.keep).n ELSE r.num
            m == unwrap_or(r.modifier, 0)
        IN  /\ expected.d = 2 * r.die
            /\ expected.n = k * TwiceDieE(r.die, r.reroll)
            /\ expected.plus = m
            /\ r.reroll = None => expected.n = k * r.die * (r.die + 1)
            /\ input = <<"d", "6">> =>
                   (expected.n = 42 /\ expected.d = 12 /\ expected.plus = 0)
            /\ input = <<"d", "6", "r", "2">> =>
                   (expected.n = 50 /\ expected.d = 12 /\ expected.plus = 0))

(***************************************************************************)
(* Resolution properties.                                                  *)
(***************************************************************************)
\* A token resolves when it names a macro or parses as a dice token.
Resolves(m, tok) == tok \in DOMAIN m \/ from_str(tok).ok

AllResolve(m, toks) == \A i \in 1..Len(toks) : Resolves(m, toks[i])

FirstInvalid(m, toks) ==
    CHOOSE i \in 1..Len(toks) :
        ~Resolves(m, toks[i]) /\ \A j \in 1..(i - 1) : Resolves(m, toks[j])

Resolved == pc \notin {"start", "load_panic", "loaded"}

\* C6: when some argument is neither a macro name nor a parsable dice token,
\* parse_rolls gives the error of the first such token and no rolls, and main
\* evaluates no roll: no draw is made and no roll or Total line is printed.
C6_FailFast ==
    (Resolved /\ ~AllResolve(macros, args)) =>
        /\ pc = "done"
        /\ rolls = Idle /\ idx = 0 /\ total = 0
        /\ drawn = Idle /\ outcome = Idle /\ result = Idle
        /\ \A k \in 1..Len(out) : out[k].kind \in {"echo", "error"}
        /\ out # <<>>
        /\ out[Len(out)] = ErrorLine(from_str(args[FirstInvalid(macros, args)]).val)

C6_Witness ==
    /\ pc = "done"
    /\ args = <<T_two, T_dU32Over>>
    /\ T_two \in DOMAIN macros
    /\ out = <<ErrorLine("Failed to parse die size.")>>

\* What one token stands for: the rolls of its macro, or else its parsed Roll.
Expansion(m, tok) == IF tok \in DOMAIN m THEN m[tok] ELSE <<from_str(tok).val>>

Offset(m, toks, i) ==
    SumOver([k \in 1..Len(toks) |-> Len(Expansion(m, toks[k]))], 1..(i - 1))

IsConcatenation(rs, m, toks) ==
    /\ Len(rs) = Offset(m, toks, Len(toks) + 1)
    /\ \A i \in 1..Len(toks) : \A j \in 1..Len(Expansion(m, toks[i])) :
          rs[Offset(m, toks, i) + j] = Expansion(m, toks[i])[j]

\* C7: parse_rolls on tokens that all resolve gives the concatenation, in token
\* order, of each token's expansion: the rolls of the macro the token names, in
\* their stored order (adv: one 2d20 keep-high-1; stats: six 4d6 keep-high-3),
\* and otherwise the one parsed Roll; the macro table is left as it was.
C7_Resolution ==
    [][ /\ pc # "start" => macros' = macros
        /\ pc = "loaded" =>
              /\ AllResolve(macros, args) =>
                    (pc' = "process" /\ IsConcatenation(rolls', macros, args))
              /\ args = <<T_adv>> =>
                    rolls' = <<Roll_new(2, 20, None, Some(High(1)), None)>>
              /\ args = <<T_stats>> =>
                    rolls' = [i \in 1..6 |-> Roll_new(4, 6, None, Some(High(3)), None)]
      ]_vars

C7_Witness ==
    /\ pc = "process"
    /\ idx = 1
    /\ args = <<T_d3, T_stats>>
    /\ T_d3 \in DOMAIN macros
    /\ Len(rolls) = 9
    /\ rolls[3] = Roll_new(1, 3, None, None, None)
    /\ rolls[9] = Roll_new(4, 6, None, Some(High(3)), None)

=============================================================================
